---- MODULE Spec2Model ----
(***************************************************************************)
(* Model of the audio transcoding pipeline of qtranscoder                  *)
(* (src/transcoder.cpp, Transcoder::processInput and the static helpers it *)
(* calls, with main and the constructor of src/main.cpp around it).  One    *)
(* action per call the driver makes; the libav* collaborators (demuxer,    *)
(* decoder, resampler, FIFO, encoder, muxer) are the environment and       *)
(* answer each call with any outcome the code has a branch for.            *)
(***************************************************************************)
EXTENDS Integers, Sequences, FiniteSets, TLC

(* ------------------------------ bounds -------------------------------- *)
\* compressed packets the input file holds
MaxPackets == 3
\* largest nb_samples of a decoded frame
MaxFrameSamples == 2
\* largest frame_size the encoder asks for
MaxOutputFrameSize == 2
\* frames the decoder may hold back before it must return one
MaxDecoderDelay == 1
\* packets the encoder may hold back before it must return one
MaxEncoderDelay == 2
\* calls of processInput one process makes
MaxRuns == 2

(* --------------------------- error codes ------------------------------ *)
\* AVERROR_EXIT, the driver's generic failure code
AVERROR_EXIT == -1414092869
\* AVERROR(ENOMEM)
AVERROR_ENOMEM == -12
\* any other negative code a libav* call hands back
AVERROR_LIB == -5

\* sample rates an input stream may have
SampleRates == {44100, 48000}

VARIABLES
    pc,                  \* the call processInput makes next
    ret,                 \* processInput's ret
    error,               \* the error of the step that failed first (0: none)
    inputFormatContext,  \* processInput's locals: TRUE when non-null
    inputCodecContext,
    outputFormatContext,
    outputCodecContext,
    resampleContext,
    fifo,
    acquired,            \* log of the resources acquired, in order
    released,            \* log of the resources released, in order
    nb_streams,          \* streams of the input file
    outputFormatKnown,   \* av_guess_format knows the output extension
    decoder,             \* demuxer and decoder: packetsLeft, buffered, draining
    sample_rate,         \* inputCodecContext->sample_rate
    out_sample_rate,     \* outputCodecContext->sample_rate (0: not set)
    frame_size,          \* outputCodecContext->frame_size (0: not open)
    encoder,             \* encoder: pending packets, draining
    muxed,               \* packets written to the muxer
    finished,            \* the loop's finished flag
    pts,                 \* the static timestamp counter
    frames,              \* non-null frames handed to encodeAudioFrame
    fifoSamples,         \* contents of the AVAudioFifo
    fifoWritten,         \* samples av_audio_fifo_write stored, in order
    fifoRead,            \* samples av_audio_fifo_read took out, in order
    decodedSamples,      \* samples in the frames avcodec_receive_frame returned
    lastOps,             \* pipeline operations the latest step performed
    faults,              \* the library calls of this run may fail
    headerWritten,       \* avformat_write_header succeeded
    trailerWrites,       \* calls of av_write_trailer
    dataPresent,         \* data_present of the latest decodeAudioFrame
    argc,                \* main's argc
    exitStatus,          \* the process's exit status (-1: it has not exited)
    run,                 \* calls of processInput so far
    dataWritten,         \* the caller's flag encodeAudioFrame's dataPresent points to
    allocated,           \* packets, frames and sample blocks the latest step allocated
    freed                \* the frees the latest step made of them, in order

ptrs == <<inputFormatContext, inputCodecContext, outputFormatContext,
          outputCodecContext, resampleContext, fifo>>
logs == <<acquired, released>>
inputs == <<nb_streams, outputFormatKnown, sample_rate, faults, argc>>
outCtx == <<out_sample_rate, frame_size>>
encVars == <<encoder, muxed, pts, frames, dataWritten>>
fifoVars == <<fifoSamples, fifoWritten, fifoRead>>
decVars == <<decoder, decodedSamples, dataPresent>>
muxVars == <<headerWritten, trailerWrites>>
procVars == <<exitStatus, run>>
tmpVars == <<allocated, freed>>

vars == <<pc, ret, error, ptrs, logs, inputs, outCtx, encVars, fifoVars,
          decVars, muxVars, procVars, tmpVars, finished, lastOps>>

Resources == {"inputFormatContext", "inputCodecContext", "outputIOContext",
              "outputFormatContext", "outputCodecContext", "resampleContext",
              "fifo"}

\* the pipeline operations a step can perform
PipelineOps == {"decode", "convert", "fifoWrite", "fifoRead", "encode",
                "packet", "header", "trailer"}

\* the answers the library can give to a step: only "ok" when nothing fails
Outcomes(all) == IF faults THEN all ELSE {"ok"}

\* the results a step can have: only the error-free ones when nothing fails
Results(all) == IF faults THEN all ELSE {r \in all : r.error = 0}

Min(a, b) == IF a < b THEN a ELSE b

\* the error of the step that failed first
FirstError(old, new) == IF old # 0 THEN old ELSE new

\* a driver that goes on after a failed step
Goto_Continue(err, next) == next

\* "if (step(...)) goto cleanup;": a nonzero result ends the run
Goto(err, next) == IF err # 0 THEN "cleanup" ELSE next

Init ==
    /\ pc = "openInputFile"
    /\ ret = AVERROR_EXIT
    /\ error = 0
    /\ inputFormatContext = FALSE
    /\ inputCodecContext = FALSE
    /\ outputFormatContext = FALSE
    /\ outputCodecContext = FALSE
    /\ resampleContext = FALSE
    /\ fifo = FALSE
    /\ acquired = <<>>
    /\ released = <<>>
    /\ nb_streams \in 0..2
    /\ outputFormatKnown \in BOOLEAN
    /\ decoder \in [packetsLeft : 0..MaxPackets, buffered : {0}, draining : {FALSE}]
    /\ sample_rate \in SampleRates
    /\ out_sample_rate = 0
    /\ frame_size = 0
    /\ encoder = [pending |-> 0, draining |-> FALSE]
    /\ muxed = 0
    /\ finished = FALSE
    /\ pts = 0
    /\ frames = <<>>
    /\ fifoSamples = <<>>
    /\ fifoWritten = <<>>
    /\ fifoRead = <<>>
    /\ decodedSamples = 0
    /\ lastOps = {}
    /\ faults \in BOOLEAN
    /\ headerWritten = FALSE
    /\ trailerWrites = 0
    /\ dataPresent = FALSE
    /\ dataWritten = FALSE
    /\ allocated = <<>>
    /\ freed = <<>>
    /\ argc = 3
    /\ exitStatus = -1
    /\ run = 1

(* --------------------------- openInputFile ---------------------------- *)
OpenInputOutcomes == {"open_input_fail", "stream_info_fail", "find_decoder_fail",
                      "alloc_context_fail", "parameters_fail", "open2_fail", "ok"}

\* a stream-count check that only refuses the empty file
SingleStream_AtLeastOne(streams) == streams >= 1

\* "if (nb_streams != 1) { close; return AVERROR_EXIT; }" lets this count pass
SingleStream(streams) == streams = 1

\* what openInputFile does when the library calls answer as outcome o
openInputFile(o, streams) ==
    LET R(err, acq, rel, got) ==
            [error |-> err, acq |-> acq, rel |-> rel, fmt |-> got, codec |-> got]
        fmt == <<"inputFormatContext">>
        both == <<"inputFormatContext", "inputCodecContext">>
    IN  IF o = "open_input_fail" THEN R(AVERROR_LIB, <<>>, <<>>, FALSE)
        ELSE IF o = "stream_info_fail" THEN R(AVERROR_LIB, fmt, fmt, FALSE)
        ELSE IF ~SingleStream(streams) THEN R(AVERROR_EXIT, fmt, fmt, FALSE)
        ELSE IF o = "find_decoder_fail" THEN R(AVERROR_EXIT, fmt, fmt, FALSE)
        ELSE IF o = "alloc_context_fail" THEN R(AVERROR_ENOMEM, fmt, fmt, FALSE)
        ELSE IF o = "parameters_fail"
             THEN R(AVERROR_LIB, both, <<"inputFormatContext", "inputCodecContext">>, FALSE)
        ELSE IF o = "open2_fail"
             THEN R(AVERROR_LIB, both, <<"inputCodecContext", "inputFormatContext">>, FALSE)
        ELSE R(0, both, <<>>, TRUE)

OpenInputFile ==
    /\ pc = "openInputFile"
    /\ \E o \in Outcomes(OpenInputOutcomes) :
        LET r == openInputFile(o, nb_streams) IN
        /\ inputFormatContext' = r.fmt
        /\ inputCodecContext' = r.codec
        /\ acquired' = acquired \o r.acq
        /\ released' = released \o r.rel
        /\ error' = FirstError(error, r.error)
        /\ pc' = Goto(r.error, "openOutputFile")
    /\ lastOps' = {}
    /\ allocated' = <<>>
    /\ freed' = <<>>
    /\ UNCHANGED <<procVars, ret, outputFormatContext, outputCodecContext, resampleContext,
                   fifo, inputs, outCtx, encVars, fifoVars, decVars, muxVars,
                   finished>>

(* --------------------------- openOutputFile --------------------------- *)
OpenOutputOutcomes == {"avio_open_fail", "alloc_format_fail", "strdup_fail",
                       "find_encoder_fail", "new_stream_fail", "alloc_context_fail",
                       "open2_fail", "parameters_fail", "ok"}

\* a container lookup that falls back to a default container
av_guess_format_Default(known) == TRUE

\* av_guess_format(nullptr, filename, nullptr) returns a container format
av_guess_format(known) == known

\* an encoder set up at a fixed rate
EncoderSampleRate_Fixed(rate) == 44100

\* avctx->sample_rate = inputCodecContext->sample_rate
EncoderSampleRate(rate) == rate

\* what openOutputFile does when the library calls answer as outcome o
openOutputFile(o, known, rate) ==
    LET R(err, acq, rel, got, r) ==
            [error |-> err, acq |-> acq, rel |-> rel, fmt |-> got, codec |-> got,
             sample_rate |-> r]
        io == <<"outputIOContext">>
        two == <<"outputIOContext", "outputFormatContext">>
        three == <<"outputIOContext", "outputFormatContext", "outputCodecContext">>
        \* the cleanup label with avctx still null
        freeTwo == <<"outputIOContext", "outputFormatContext">>
        \* the cleanup label with avctx allocated
        freeThree == <<"outputCodecContext", "outputIOContext", "outputFormatContext">>
    IN  IF o = "avio_open_fail" THEN R(AVERROR_LIB, <<>>, <<>>, FALSE, 0)
        ELSE IF o = "alloc_format_fail" THEN R(AVERROR_ENOMEM, io, <<>>, FALSE, 0)
        ELSE IF ~av_guess_format(known) THEN R(AVERROR_EXIT, two, freeTwo, FALSE, 0)
        ELSE IF o = "strdup_fail" THEN R(AVERROR_ENOMEM, two, freeTwo, FALSE, 0)
        ELSE IF o = "find_encoder_fail" THEN R(AVERROR_EXIT, two, freeTwo, FALSE, 0)
        ELSE IF o = "new_stream_fail" THEN R(AVERROR_ENOMEM, two, freeTwo, FALSE, 0)
        ELSE IF o = "alloc_context_fail" THEN R(AVERROR_ENOMEM, two, freeTwo, FALSE, 0)
        ELSE IF o = "open2_fail" THEN R(AVERROR_LIB, three, freeThree, FALSE, 0)
        ELSE IF o = "parameters_fail" THEN R(AVERROR_LIB, three, freeThree, FALSE, 0)
        ELSE R(0, three, <<>>, TRUE, EncoderSampleRate(rate))

OpenOutputFile ==
    /\ pc = "openOutputFile"
    /\ \E o \in Outcomes(OpenOutputOutcomes), fs \in 1..MaxOutputFrameSize :
        LET r == openOutputFile(o, outputFormatKnown, sample_rate) IN
        /\ outputFormatContext' = r.fmt
        /\ outputCodecContext' = r.codec
        /\ out_sample_rate' = r.sample_rate
        /\ frame_size' = IF r.error = 0 THEN fs ELSE 0
        /\ acquired' = acquired \o r.acq
        /\ released' = released \o r.rel
        /\ error' = FirstError(error, r.error)
        /\ pc' = Goto(r.error, "initResampler")
    /\ lastOps' = {}
    /\ allocated' = <<>>
    /\ freed' = <<>>
    /\ UNCHANGED <<procVars, ret, inputFormatContext, inputCodecContext, resampleContext,
                   fifo, inputs, encVars, fifoVars, decVars, muxVars, finished>>

(* ---------------------------- initResampler --------------------------- *)
InitResamplerOutcomes == {"alloc_fail", "init_fail", "ok"}

\* a build that leaves the sanity check out
SampleRateAssertion_Off(inRate, outRate) == TRUE

\* the condition of av_assert0(output sample_rate == input sample_rate)
SampleRateAssertion(inRate, outRate) == outRate = inRate

\* what initResampler does when the library calls answer as outcome o;
\* abort: av_assert0 on the sample rates ends the process
initResampler(o, inRate, outRate) ==
    LET R(err, acq, rel, got, ab) ==
            [error |-> err, acq |-> acq, rel |-> rel, swr |-> got, abort |-> ab]
        swr == <<"resampleContext">>
    IN  IF o = "alloc_fail" THEN R(AVERROR_ENOMEM, <<>>, <<>>, FALSE, FALSE)
        ELSE IF ~SampleRateAssertion(inRate, outRate) THEN R(0, swr, <<>>, TRUE, TRUE)
        ELSE IF o = "init_fail" THEN R(AVERROR_LIB, swr, swr, FALSE, FALSE)
        ELSE R(0, swr, <<>>, TRUE, FALSE)

InitResampler ==
    /\ pc = "initResampler"
    /\ \E o \in Outcomes(InitResamplerOutcomes) :
        LET r == initResampler(o, sample_rate, out_sample_rate) IN
        /\ resampleContext' = r.swr
        /\ acquired' = acquired \o r.acq
        /\ released' = released \o r.rel
        /\ error' = FirstError(error, r.error)
        /\ pc' = IF r.abort THEN "abort" ELSE Goto(r.error, "initFifo")
    /\ lastOps' = {}
    /\ allocated' = <<>>
    /\ freed' = <<>>
    /\ UNCHANGED <<procVars, ret, inputFormatContext, inputCodecContext, outputFormatContext,
                   outputCodecContext, fifo, inputs, outCtx, encVars, fifoVars,
                   decVars, muxVars, finished>>

(* ------------------------------ initFifo ------------------------------ *)
InitFifoOutcomes == {"alloc_fail", "ok"}

initFifo(o) ==
    IF o = "alloc_fail"
    THEN [error |-> AVERROR_ENOMEM, acq |-> <<>>, fifo |-> FALSE]
    ELSE [error |-> 0, acq |-> <<"fifo">>, fifo |-> TRUE]

InitFifo ==
    /\ pc = "initFifo"
    /\ \E o \in Outcomes(InitFifoOutcomes) :
        LET r == initFifo(o) IN
        /\ fifo' = r.fifo
        /\ acquired' = acquired \o r.acq
        /\ error' = FirstError(error, r.error)
        /\ pc' = Goto(r.error, "writeOutputFileHeader")
    /\ lastOps' = {}
    /\ allocated' = <<>>
    /\ freed' = <<>>
    /\ UNCHANGED <<procVars, ret, inputFormatContext, inputCodecContext, outputFormatContext,
                   outputCodecContext, resampleContext, released, inputs, outCtx,
                   encVars, fifoVars, decVars, muxVars, finished>>

(* ------------------------- the loop's conditions ---------------------- *)
\* an encode loop that runs whenever the FIFO holds anything
DrainCond_AnySamples(size, fin, fs) == size > 0

\* an encode loop that only ever takes whole frames
DrainCond_FullFramesOnly(size, fin, fs) == size >= fs

\* the inner encode loop's condition
DrainCond(size, fin, fs) == size >= fs \/ (fin /\ size > 0)

\* after "if (finished) { flush; break; }": flush, or back to the top of while (1)
AfterDrain(fin) == IF fin THEN "encodeAudioFrame" ELSE "readDecodeConvertAndStore"

\* the driver's position once the encode loop's condition is evaluated
DrainCheck(size, fin, fs) ==
    IF DrainCond(size, fin, fs) THEN "loadEncodeAndWrite" ELSE AfterDrain(fin)

\* a decode loop that does not look at finished
FillCheck_IgnoreFinished(size, fin, fs) ==
    IF size < fs THEN "readDecodeConvertAndStore" ELSE DrainCheck(size, fin, fs)

\* a decode loop that reads one frame more once the FIFO holds a whole frame
FillCheck_ReadAhead(size, fin, fs) ==
    IF ~fin /\ size <= fs THEN "readDecodeConvertAndStore" ELSE DrainCheck(size, fin, fs)

\* the driver's position after a successful readDecodeConvertAndStore:
\* "if (finished) break;", then the decode loop's condition
FillCheck(size, fin, fs) ==
    IF ~fin /\ size < fs THEN "readDecodeConvertAndStore" ELSE DrainCheck(size, fin, fs)

\* a flush loop that never looks at data_written
AfterFlush_Forever(data_written) == "encodeAudioFrame"

\* the flush loop: do { encodeAudioFrame(nullptr) } while (data_written)
AfterFlush(data_written) ==
    IF data_written THEN "encodeAudioFrame" ELSE "writeOutputFileTrailer"

(* ------------------------ writeOutputFileHeader ----------------------- *)
WriteHeaderOutcomes == {"fail", "ok"}

\* a header write that reports success whatever avformat_write_header said
writeOutputFileHeader_Swallow(o) == 0

writeOutputFileHeader(o) == IF o = "fail" THEN AVERROR_LIB ELSE 0

WriteOutputFileHeader ==
    /\ pc = "writeOutputFileHeader"
    /\ \E o \in Outcomes(WriteHeaderOutcomes) :
        LET err == writeOutputFileHeader(o) IN
        /\ headerWritten' = (o = "ok")
        /\ error' = FirstError(error, IF o = "ok" THEN 0 ELSE AVERROR_LIB)
        \* while (1): finished = 0, then the decode loop's condition
        /\ pc' = Goto(err, FillCheck(Len(fifoSamples), FALSE, frame_size))
    /\ finished' = FALSE
    /\ lastOps' = {"header"}
    /\ allocated' = <<>>
    /\ freed' = <<>>
    /\ UNCHANGED <<procVars, ret, ptrs, logs, inputs, outCtx, encVars, fifoVars, decVars,
                   trailerWrites>>

(* ------------------------- transient packets -------------------------- *)
\* a cleanup label that is reached on the success path only
PacketCleanup_OnSuccessOnly(packet, err) == IF err = 0 THEN <<packet>> ELSE <<>>

\* "cleanup: av_packet_free(&packet); return error;": the frees of the label
\* that decodeAudioFrame and encodeAudioFrame leave through, whatever error is
PacketCleanup(packet, err) == <<packet>>

(* --------------------------- decodeAudioFrame ------------------------- *)
\* the results decodeAudioFrame can return with the demuxer and decoder in
\* state d: one per answer of av_packet_alloc, av_read_frame,
\* avcodec_send_packet and avcodec_receive_frame
decodeAudioFrame(d) ==
    LET \* every path after initPacket succeeded leaves through the cleanup
        \* label, which frees the packet
        R(err, dp, fin, nb, dd) ==
            [error |-> err, dataPresent |-> dp, finished |-> fin,
             nb_samples |-> nb, decoder |-> dd,
             allocs |-> <<"inputPacket">>, frees |-> PacketCleanup("inputPacket", err)]
        \* initPacket failed: "return error" with nothing allocated
        NoPacket(err) ==
            [error |-> err, dataPresent |-> FALSE, finished |-> FALSE,
             nb_samples |-> 0, decoder |-> d, allocs |-> <<>>, frees |-> <<>>]
        \* av_read_frame: AVERROR_EOF once the packets are used up
        eof == d.packetsLeft = 0
        afterRead == IF eof THEN d ELSE [d EXCEPT !.packetsLeft = @ - 1]
        \* avcodec_send_packet: the empty packet of the EOF case starts draining
        afterSend == IF eof THEN [afterRead EXCEPT !.draining = TRUE]
                     ELSE [afterRead EXCEPT !.buffered = @ + 1]
        gotFrame == [afterSend EXCEPT !.buffered = @ - 1]
    IN  {NoPacket(AVERROR_ENOMEM)}
        \cup {R(AVERROR_LIB, FALSE, FALSE, 0, d)}
        \cup {R(AVERROR_LIB, FALSE, eof, 0, afterRead)}
        \cup {R(AVERROR_LIB, FALSE, eof, 0, afterSend)}
        \* AVERROR(EAGAIN): the decoder wants more input
        \cup (IF ~afterSend.draining /\ afterSend.buffered <= MaxDecoderDelay
              THEN {R(0, FALSE, eof, 0, afterSend)} ELSE {})
        \* AVERROR_EOF: the decoder is drained
        \cup (IF afterSend.draining /\ afterSend.buffered = 0
              THEN {R(0, FALSE, TRUE, 0, afterSend)} ELSE {})
        \* a frame
        \cup (IF afterSend.buffered > 0
              THEN {R(0, TRUE, eof, n, gotFrame) : n \in 1..MaxFrameSamples}
              ELSE {})

(* ---------------------- readDecodeConvertAndStore --------------------- *)
\* the samples of a decoded frame, by their position in the decoded stream
FrameSamples(first, nb) == [i \in 1..nb |-> first + i]

\* convertSamples: swr_convert at equal rates turns frameSize input samples
\* into frameSize output samples, position by position
convertSamples(inputData, frameSize) == SubSeq(inputData, 1, frameSize)

\* a write into a FIFO that was resized to the new samples alone
FifoWrite_Overwrite(q, block, n) == SubSeq(block, 1, n)

\* addSamplesToFifo's FIFO calls: room for the old and the new samples, then
\* av_audio_fifo_write of the first n samples of the block
FifoWrite(q, block, n) == q \o SubSeq(block, 1, n)

ConvertOutcomes == {"pointers_alloc_fail", "samples_alloc_fail", "convert_fail",
                    "fifo_realloc_fail", "fifo_short_write", "ok"}

\* initConvertedSamples when the allocations answer as outcome c: what it
\* allocates, what it frees itself, and whether the caller's
\* convertedInputSamples is non-null when it returns (free(*convertedInputSamples)
\* in the error branch leaves the caller's pointer as it was)
initConvertedSamples(c) ==
    IF c = "pointers_alloc_fail"
    THEN [allocs |-> <<>>, frees |-> <<>>, pointer |-> FALSE]
    ELSE IF c = "samples_alloc_fail"
    THEN [allocs |-> <<"convertedPointers">>, frees |-> <<"convertedPointers">>,
          pointer |-> TRUE]
    ELSE [allocs |-> <<"convertedPointers", "convertedSamples">>, frees |-> <<>>,
          pointer |-> TRUE]

\* the cleanup label of readDecodeConvertAndStore on the converted samples:
\* "if (convertedInputSamples) free(convertedInputSamples);", the av_freep of
\* the sample buffer being commented out
ConvertedCleanup(pointer) == IF pointer THEN <<"convertedPointers">> ELSE <<>>

\* whether readDecodeConvertAndStore takes the frame of decode result r on to
\* conversion: "if (*finished) { ret = 0; goto cleanup; }" comes first
StoresFrame(r) == r.error = 0 /\ ~r.finished /\ r.dataPresent

ReadDecodeConvertAndStore ==
    /\ pc = "readDecodeConvertAndStore"
    /\ \/ \* initInputFrame fails
          /\ error' = FirstError(error, AVERROR_ENOMEM)
          /\ pc' = Goto(AVERROR_EXIT, "readDecodeConvertAndStore")
          /\ faults
          /\ lastOps' = {}
          /\ allocated' = <<>>
          /\ freed' = <<>>
          /\ UNCHANGED <<finished, fifoVars, decVars>>
       \/ \E r \in Results(decodeAudioFrame(decoder)), c \in Outcomes(ConvertOutcomes),
             k \in 0..(MaxFrameSamples - 1), crash \in BOOLEAN :
            LET block == convertSamples(FrameSamples(decodedSamples, r.nb_samples),
                                        r.nb_samples)
                stores == StoresFrame(r)
                converts == stores /\ c \notin {"pointers_alloc_fail", "samples_alloc_fail"}
                writes == stores /\ c \in {"fifo_short_write", "ok"}
                \* samples av_audio_fifo_write stores
                n == IF c = "ok" THEN r.nb_samples ELSE Min(k, r.nb_samples - 1)
                q == IF writes THEN FifoWrite(fifoSamples, block, n) ELSE fifoSamples
                \* the error of the call that failed, and what the function returns
                cause == IF r.error # 0 THEN r.error
                         ELSE IF ~stores \/ c = "ok" THEN 0
                         ELSE IF c = "pointers_alloc_fail" THEN AVERROR_ENOMEM
                         ELSE IF c = "fifo_short_write" THEN AVERROR_EXIT
                         ELSE AVERROR_LIB
                err == IF cause # 0 THEN AVERROR_EXIT ELSE 0
                conv == IF stores THEN initConvertedSamples(c)
                        ELSE [allocs |-> <<>>, frees |-> <<>>, pointer |-> FALSE]
                \* the cleanup label frees a pointer array that
                \* initConvertedSamples has freed already
                doubleFree == conv.pointer /\ conv.frees # <<>>
            IN
            \* the second free of a block is undefined: the allocator ends the
            \* process there, or the run goes on
            /\ crash => doubleFree
            /\ allocated' = <<"inputFrame">> \o r.allocs \o conv.allocs
            /\ freed' = r.frees \o conv.frees \o ConvertedCleanup(conv.pointer)
                         \o (IF crash THEN <<>> ELSE <<"inputFrame">>)
            /\ decoder' = r.decoder
            /\ decodedSamples' = decodedSamples + r.nb_samples
            /\ dataPresent' = r.dataPresent
            /\ finished' = r.finished
            /\ fifoSamples' = q
            /\ fifoWritten' = IF writes THEN fifoWritten \o SubSeq(block, 1, n)
                              ELSE fifoWritten
            /\ fifoRead' = fifoRead
            /\ lastOps' = {"decode"} \cup (IF converts THEN {"convert"} ELSE {})
                                     \cup (IF writes THEN {"fifoWrite"} ELSE {})
            /\ error' = FirstError(error, cause)
            /\ pc' = IF crash THEN "crash"
                      ELSE Goto(err, FillCheck(Len(q), r.finished, frame_size))
    /\ UNCHANGED <<procVars, ret, ptrs, logs, inputs, outCtx, encVars, muxVars>>

(* --------------------------- encodeAudioFrame ------------------------- *)
\* a counter that counts frames instead of samples
StampPts_PerFrame(p, nb) == p + 1

\* the timestamp counter after a frame of nb samples was stamped
StampPts(p, nb) == p + nb

\* the results encodeAudioFrame can return for a frame of nb samples (hasFrame)
\* or for the null frame, with the encoder in state e and the counter at p:
\* one per answer of av_packet_alloc, avcodec_send_frame,
\* avcodec_receive_packet and av_write_frame
encodeAudioFrame(hasFrame, nb, e, p) ==
    LET R(err, dp, ee, pp, st, wr) ==
            [error |-> err, dataPresent |-> dp, encoder |-> ee, pts |-> pp,
             stamped |-> st, written |-> wr,
             allocs |-> <<"outputPacket">>, frees |-> PacketCleanup("outputPacket", err)]
        \* initPacket failed: "return error" with nothing allocated
        NoPacket(err) ==
            [error |-> err, dataPresent |-> FALSE, encoder |-> e, pts |-> p,
             stamped |-> FALSE, written |-> FALSE, allocs |-> <<>>, frees |-> <<>>]
        p1 == IF hasFrame THEN StampPts(p, nb) ELSE p
        \* avcodec_send_frame: a frame is queued, the null frame starts draining
        afterSend == IF hasFrame THEN [e EXCEPT !.pending = @ + 1]
                     ELSE [e EXCEPT !.draining = TRUE]
        gotPacket == [afterSend EXCEPT !.pending = @ - 1]
    IN  {NoPacket(AVERROR_ENOMEM)}
        \cup (IF e.draining
              \* avcodec_send_frame answers AVERROR_EOF: nothing more to encode
              THEN {R(0, FALSE, e, p1, hasFrame, FALSE)}
              ELSE {R(AVERROR_LIB, FALSE, e, p1, hasFrame, FALSE)}
                   \cup {R(AVERROR_LIB, FALSE, afterSend, p1, hasFrame, FALSE)}
                   \* AVERROR(EAGAIN): the encoder wants more input
                   \cup (IF ~afterSend.draining /\ afterSend.pending <= MaxEncoderDelay
                         THEN {R(0, FALSE, afterSend, p1, hasFrame, FALSE)} ELSE {})
                   \* AVERROR_EOF: the encoder is drained
                   \cup (IF afterSend.draining /\ afterSend.pending = 0
                         THEN {R(0, FALSE, afterSend, p1, hasFrame, FALSE)} ELSE {})
                   \* a packet, which av_write_frame writes or fails to write
                   \cup (IF afterSend.pending > 0
                         THEN {R(0, TRUE, gotPacket, p1, hasFrame, TRUE),
                               R(AVERROR_LIB, TRUE, gotPacket, p1, hasFrame, FALSE)}
                         ELSE {}))

(* -------------------------- loadEncodeAndWrite ------------------------ *)
\* a read that always asks for a whole encoder frame
LoadFrameSize_EncoderSize(size, fs) == fs

\* the caller's flag after encodeAudioFrame: "*dataPresent = 1" when a packet
\* was received, otherwise the value the caller left in it
OutFlag(set, before) == IF set THEN TRUE ELSE before

\* frame_size = FFMIN(av_audio_fifo_size(fifo), outputCodecContext->frame_size)
LoadFrameSize(size, fs) == Min(size, fs)

\* av_audio_fifo_read of n samples: the samples handed out, and what stays
FifoTake(q, n) == SubSeq(q, 1, Min(n, Len(q)))
FifoRest(q, n) == SubSeq(q, Min(n, Len(q)) + 1, Len(q))

LoadEncodeAndWrite ==
    /\ pc = "loadEncodeAndWrite"
    /\ \/ \* initOutputFrame fails: av_frame_alloc returns null, or
          \* av_frame_get_buffer fails and the frame is freed again
          \E got \in BOOLEAN :
          /\ error' = FirstError(error, IF got THEN AVERROR_LIB ELSE AVERROR_EXIT)
          /\ pc' = Goto(AVERROR_EXIT, "loadEncodeAndWrite")
          /\ faults
          /\ lastOps' = {}
          /\ allocated' = IF got THEN <<"outputFrame">> ELSE <<>>
          /\ freed' = IF got THEN <<"outputFrame">> ELSE <<>>
          /\ UNCHANGED <<fifoVars, encVars>>
       \/ LET n == LoadFrameSize(Len(fifoSamples), frame_size)
              got == FifoTake(fifoSamples, n)
              q == FifoRest(fifoSamples, n)
          IN
          IF Len(got) < n
          THEN \* "Could not read data from FIFO"
               /\ fifoSamples' = q
               /\ fifoRead' = fifoRead \o got
               /\ fifoWritten' = fifoWritten
               /\ lastOps' = {"fifoRead"}
               /\ allocated' = <<"outputFrame">>
               /\ freed' = <<"outputFrame">>
               /\ error' = FirstError(error, AVERROR_EXIT)
               /\ pc' = Goto(AVERROR_EXIT, "loadEncodeAndWrite")
               /\ UNCHANGED encVars
          ELSE \E r \in Results(encodeAudioFrame(TRUE, n, encoder, pts)),
                  garbage \in BOOLEAN :
               LET err == IF r.error # 0 THEN AVERROR_EXIT ELSE 0 IN
               \* "int dataWritten;" is not initialised, and encodeAudioFrame
               \* stores into it only when it received a packet
               /\ dataWritten' = OutFlag(r.dataPresent, garbage)
               /\ allocated' = <<"outputFrame">> \o r.allocs
               /\ freed' = r.frees \o <<"outputFrame">>
               /\ fifoSamples' = q
               /\ fifoRead' = fifoRead \o got
               /\ fifoWritten' = fifoWritten
               /\ encoder' = r.encoder
               /\ pts' = r.pts
               /\ muxed' = muxed + (IF r.written THEN 1 ELSE 0)
               /\ frames' = IF r.stamped
                            THEN Append(frames, [pts |-> pts, nb_samples |-> n,
                                                 finished |-> finished])
                            ELSE frames
               /\ lastOps' = {"fifoRead", "encode"}
                             \cup (IF r.dataPresent THEN {"packet"} ELSE {})
               /\ error' = FirstError(error, r.error)
               /\ pc' = Goto(err, DrainCheck(Len(q), finished, frame_size))
    /\ UNCHANGED <<procVars, ret, ptrs, logs, inputs, outCtx, decVars, muxVars, finished>>

(* ------------------- the flush: encodeAudioFrame(nullptr) ------------- *)
FlushEncoder ==
    /\ pc = "encodeAudioFrame"
    /\ \E r \in Results(encodeAudioFrame(FALSE, 0, encoder, pts)) :
        /\ encoder' = r.encoder
        /\ pts' = r.pts
        /\ muxed' = muxed + (IF r.written THEN 1 ELSE 0)
        \* "data_written = 0;" before the call
        /\ dataWritten' = OutFlag(r.dataPresent, FALSE)
        /\ allocated' = r.allocs
        /\ freed' = r.frees
        /\ error' = FirstError(error, r.error)
        /\ pc' = Goto(r.error, AfterFlush(OutFlag(r.dataPresent, FALSE)))
        /\ lastOps' = {"encode"} \cup (IF r.dataPresent THEN {"packet"} ELSE {})
    /\ UNCHANGED <<procVars, ret, ptrs, logs, inputs, outCtx, frames, fifoVars, decVars,
                   muxVars, finished>>

(* ------------------------ writeOutputFileTrailer ---------------------- *)
WriteTrailerOutcomes == {"fail", "ok"}

writeOutputFileTrailer(o) == IF o = "fail" THEN AVERROR_LIB ELSE 0

\* a trailer write that is tried again when it failed
TrailerCalls_Retry(o, n) == IF o = "fail" THEN n + 2 ELSE n + 1

\* the calls of av_write_trailer after writeOutputFileTrailer ran: one more,
\* whatever the call answered
TrailerCalls(o, n) == n + 1

WriteOutputFileTrailer ==
    /\ pc = "writeOutputFileTrailer"
    /\ \E o \in Outcomes(WriteTrailerOutcomes) :
        LET err == writeOutputFileTrailer(o) IN
        /\ error' = FirstError(error, err)
        /\ ret' = IF err # 0 THEN ret ELSE 0
        /\ trailerWrites' = TrailerCalls(o, trailerWrites)
    /\ lastOps' = {"trailer"}
    /\ allocated' = <<>>
    /\ freed' = <<>>
    /\ pc' = "cleanup"
    /\ UNCHANGED <<procVars, ptrs, logs, inputs, outCtx, encVars, fifoVars, decVars,
                   headerWritten, finished>>

(* ------------------------------ cleanup ------------------------------- *)
\* the releases of the cleanup label, in the order it makes them
CleanupReleases(fi, swr, oc, of, ic, if) ==
    (IF fi THEN <<"fifo">> ELSE <<>>)
    \o (IF swr THEN <<"resampleContext">> ELSE <<>>)
    \o (IF oc THEN <<"outputCodecContext">> ELSE <<>>)
    \o (IF of THEN <<"outputIOContext", "outputFormatContext">> ELSE <<>>)
    \o (IF ic THEN <<"inputCodecContext">> ELSE <<>>)
    \o (IF if THEN <<"inputFormatContext">> ELSE <<>>)

Cleanup ==
    /\ pc = "cleanup"
    /\ released' = released \o CleanupReleases(fifo, resampleContext,
                        outputCodecContext, outputFormatContext,
                        inputCodecContext, inputFormatContext)
    /\ pc' = "return"
    /\ lastOps' = {}
    /\ allocated' = <<>>
    /\ freed' = <<>>
    /\ UNCHANGED <<procVars, ret, error, ptrs, acquired, inputs, outCtx, encVars, fifoVars,
                   decVars, muxVars, finished>>

Next ==
    \/ OpenInputFile
    \/ OpenOutputFile
    \/ InitResampler
    \/ InitFifo
    \/ WriteOutputFileHeader
    \/ ReadDecodeConvertAndStore
    \/ LoadEncodeAndWrite
    \/ FlushEncoder
    \/ WriteOutputFileTrailer
    \/ Cleanup

Spec == Init /\ [][Next]_vars

\* the run is one thread that keeps going until processInput returns
FairSpec == Spec /\ WF_vars(Next)

(* ------------------------ main and the constructor -------------------- *)
\* an argument check that also accepts extra arguments
ArgsOk_AtLeast(n) == n >= 3

\* main goes on to construct the Transcoder: "if (argc != 3) { usage; exit(1); }"
ArgsOk(n) == n = 3

\* the state main starts in: nothing constructed, any number of arguments
MainInit ==
    /\ pc = "main"
    /\ ret = AVERROR_EXIT
    /\ error = 0
    /\ inputFormatContext = FALSE
    /\ inputCodecContext = FALSE
    /\ outputFormatContext = FALSE
    /\ outputCodecContext = FALSE
    /\ resampleContext = FALSE
    /\ fifo = FALSE
    /\ acquired = <<>>
    /\ released = <<>>
    /\ nb_streams \in 0..2
    /\ outputFormatKnown \in BOOLEAN
    /\ decoder \in [packetsLeft : 0..MaxPackets, buffered : {0}, draining : {FALSE}]
    /\ sample_rate \in SampleRates
    /\ out_sample_rate = 0
    /\ frame_size = 0
    /\ encoder = [pending |-> 0, draining |-> FALSE]
    /\ muxed = 0
    /\ finished = FALSE
    /\ pts = 0
    /\ frames = <<>>
    /\ fifoSamples = <<>>
    /\ fifoWritten = <<>>
    /\ fifoRead = <<>>
    /\ decodedSamples = 0
    /\ lastOps = {}
    /\ faults \in BOOLEAN
    /\ headerWritten = FALSE
    /\ trailerWrites = 0
    /\ dataPresent = FALSE
    /\ dataWritten = FALSE
    /\ allocated = <<>>
    /\ freed = <<>>
    /\ argc \in 2..4
    /\ exitStatus = -1
    /\ run = 0

\* main up to "new Transcoder(argv[1], argv[2])", whose constructor calls
\* processInput
Main ==
    /\ pc = "main"
    /\ IF ArgsOk(argc)
       THEN /\ pc' = "openInputFile"
            /\ run' = run + 1
            /\ exitStatus' = exitStatus
       ELSE \* usage on stderr, exit(1)
            /\ pc' = "exited"
            /\ run' = run
            /\ exitStatus' = 1
    /\ lastOps' = {}
    /\ allocated' = <<>>
    /\ freed' = <<>>
    /\ UNCHANGED <<ret, error, ptrs, logs, inputs, outCtx, encVars, fifoVars,
                   decVars, muxVars, finished>>

\* an exit status that tells a failed run from a successful one
ExitStatus_Propagate(r) == IF r = 0 THEN 0 ELSE 1

\* the status the process ends with once processInput returned r: exit(0) in
\* the constructor when r is 0, otherwise the constructor returns and main
\* returns 0
ExitStatus(r) == IF r = 0 THEN 0 ELSE 0

\* the rest of the constructor and of main after processInput returned
Exit ==
    /\ pc = "return"
    /\ pc' = "exited"
    /\ exitStatus' = ExitStatus(ret)
    /\ lastOps' = {}
    /\ allocated' = <<>>
    /\ freed' = <<>>
    /\ UNCHANGED <<run, ret, error, ptrs, logs, inputs, outCtx, encVars, fifoVars,
                   decVars, muxVars, finished>>

MainNext == Main \/ Next \/ Exit

\* the whole process, from main to its exit
MainSpec == MainInit /\ [][MainNext]_vars

(* ------------------- processInput called once more -------------------- *)
\* processInput is public: on an object whose constructor's run failed (a
\* successful one ends the process) a caller can invoke it again.  The call
\* starts from fresh locals and freshly opened files; the file-scope static
\* pts is what the earlier run left.
Rerun ==
    /\ pc = "return"
    /\ ret # 0
    /\ run < MaxRuns
    /\ run' = run + 1
    /\ pc' = "openInputFile"
    /\ ret' = AVERROR_EXIT
    /\ error' = 0
    /\ inputFormatContext' = FALSE
    /\ inputCodecContext' = FALSE
    /\ outputFormatContext' = FALSE
    /\ outputCodecContext' = FALSE
    /\ resampleContext' = FALSE
    /\ fifo' = FALSE
    /\ acquired' = <<>>
    /\ released' = <<>>
    /\ decoder' \in [packetsLeft : 0..MaxPackets, buffered : {0}, draining : {FALSE}]
    /\ out_sample_rate' = 0
    /\ frame_size' = 0
    /\ encoder' = [pending |-> 0, draining |-> FALSE]
    /\ muxed' = 0
    /\ finished' = FALSE
    /\ frames' = <<>>
    /\ fifoSamples' = <<>>
    /\ fifoWritten' = <<>>
    /\ fifoRead' = <<>>
    /\ decodedSamples' = 0
    /\ dataPresent' = FALSE
    /\ dataWritten' = FALSE
    /\ allocated' = <<>>
    /\ freed' = <<>>
    /\ lastOps' = {}
    /\ headerWritten' = FALSE
    /\ trailerWrites' = 0
    /\ UNCHANGED <<pts, inputs, exitStatus>>

RerunNext == Next \/ Rerun

\* an object on which processInput is called up to MaxRuns times
RerunSpec == Init /\ [][RerunNext]_vars

(* ------------------ initResampler on any two contexts ----------------- *)
\* initResampler entered with an opened decoder context and an opened encoder
\* context of any sample rates
ResamplerInit ==
    /\ pc = "initResampler"
    /\ ret = AVERROR_EXIT
    /\ error = 0
    /\ inputFormatContext = TRUE
    /\ inputCodecContext = TRUE
    /\ outputFormatContext = TRUE
    /\ outputCodecContext = TRUE
    /\ resampleContext = FALSE
    /\ fifo = FALSE
    /\ acquired = <<"inputFormatContext", "inputCodecContext", "outputIOContext",
                    "outputFormatContext", "outputCodecContext">>
    /\ released = <<>>
    /\ nb_streams = 1
    /\ outputFormatKnown = TRUE
    /\ decoder \in [packetsLeft : 0..MaxPackets, buffered : {0}, draining : {FALSE}]
    /\ sample_rate \in SampleRates
    /\ out_sample_rate \in SampleRates
    /\ frame_size \in 1..MaxOutputFrameSize
    /\ encoder = [pending |-> 0, draining |-> FALSE]
    /\ muxed = 0
    /\ finished = FALSE
    /\ pts = 0
    /\ frames = <<>>
    /\ fifoSamples = <<>>
    /\ fifoWritten = <<>>
    /\ fifoRead = <<>>
    /\ decodedSamples = 0
    /\ lastOps = {}
    /\ faults \in BOOLEAN
    /\ headerWritten = FALSE
    /\ trailerWrites = 0
    /\ dataPresent = FALSE
    /\ dataWritten = FALSE
    /\ allocated = <<>>
    /\ freed = <<>>
    /\ argc = 3
    /\ exitStatus = -1
    /\ run = 1

ResamplerNext ==
    \/ InitResampler
    \/ InitFifo
    \/ WriteOutputFileHeader
    \/ ReadDecodeConvertAndStore
    \/ LoadEncodeAndWrite
    \/ FlushEncoder
    \/ WriteOutputFileTrailer
    \/ Cleanup

\* the pipeline from initResampler on
ResamplerSpec == ResamplerInit /\ [][ResamplerNext]_vars

(* ====================== properties of the pipeline ==================== *)
RECURSIVE SumSamples(_)
\* total nb_samples of a sequence of frames
SumSamples(fs) == IF fs = <<>> THEN 0 ELSE fs[1].nb_samples + SumSamples(Tail(fs))

\* how often resource r occurs in log l
Count(l, r) == Cardinality({i \in 1..Len(l) : l[i] = r})

\* processInput has returned 0
Succeeded == pc = "return" /\ ret = 0

\* C1: when a run completes without error, the samples of the frames the
\* decoder returned (the one returned after the read hit end-of-file included)
\* are as many as the samples written to the FIFO and as the samples of the
\* frames submitted to the encoder.
C1_SampleConservation ==
    Succeeded => /\ decodedSamples = Len(fifoWritten)
                 /\ Len(fifoWritten) = SumSamples(frames)

\* the timestamps of the submitted frames start at 0 and each is the previous
\* one plus the previous frame's nb_samples; the counter is their total
PtsChain ==
    /\ frames # <<>> => frames[1].pts = 0
    /\ \A i \in 1..(Len(frames) - 1) :
        /\ frames[i + 1].pts = frames[i].pts + frames[i].nb_samples
        /\ frames[i + 1].pts > frames[i].pts
    /\ pts = SumSamples(frames)

\* C2: the pts values stamped on the submitted frames start at 0, are strictly
\* increasing, each exceeds the previous one by the previous frame's
\* nb_samples, the counter equals the total of nb_samples submitted, and a
\* flush call encodeAudioFrame(nullptr) never changes the counter.
C2_PtsContiguous ==
    /\ []PtsChain
    /\ [][pc = "encodeAudioFrame" => pts' = pts]_vars

\* two frames were stamped and the flush has run to its end
C2_Witness ==
    /\ Len(frames) >= 2
    /\ encoder.draining
    /\ pc = "writeOutputFileTrailer"

\* C3: in every state the samples read from the FIFO so far, followed by the
\* samples still in it, are the samples written to it so far, in order.
C3_FifoOrder == fifoRead \o fifoSamples = fifoWritten

\* samples were read while others, written in a later call, still wait
C3_Witness ==
    /\ Len(fifoRead) > 0
    /\ Len(fifoSamples) > 0
    /\ Len(fifoWritten) > Len(fifoRead)

\* C4: when the run ends, every resource acquired has been released exactly
\* once, whichever stage failed.
C4_ReleasedExactlyOnce ==
    pc = "return" => \A r \in Resources : Count(released, r) = Count(acquired, r)

\* the place of a resource in the release order: FIFO, resampler, encoder
\* context, output format context with its I/O handle, decoder context, input
\* format context
ReleaseRank(r) ==
    CASE r = "fifo" -> 6
      [] r = "resampleContext" -> 5
      [] r = "outputCodecContext" -> 4
      [] r \in {"outputFormatContext", "outputIOContext"} -> 3
      [] r = "inputCodecContext" -> 2
      [] r = "inputFormatContext" -> 1

\* the order in which a run acquires its resources
AcquireOrder == <<"inputFormatContext", "inputCodecContext", "outputIOContext",
                  "outputFormatContext", "outputCodecContext", "resampleContext",
                  "fifo">>

\* C5: resources are acquired in the fixed order, and on every path the
\* releases run in the reverse order: FIFO, resampler, encoder context, output
\* format context with its I/O handle, decoder context, input format context.
C5_ReverseRelease ==
    /\ acquired = SubSeq(AcquireOrder, 1, Len(acquired))
    /\ \A i, j \in 1..Len(released) :
        i < j => ReleaseRank(released[i]) >= ReleaseRank(released[j])

\* every acquired resource has been released
AllReleased == \A r \in Resources : Count(released, r) = Count(acquired, r)

\* the run reached DONE
Done == Succeeded /\ trailerWrites = 1 /\ AllReleased /\ Len(acquired) = 7

\* C6: a run on which no step fails leaves the FILLING/DRAINING loop and the
\* flush, writes the trailer once, releases everything and returns 0.
C6_Completion == <>(error # 0 \/ Done)

\* a run that read all its packets, encoded across several frames and returned 0
C6_Witness ==
    /\ Done
    /\ Len(frames) >= 2
    /\ decoder.packetsLeft = 0
    /\ ~faults

\* C7: after the first failure no decode, convert, FIFO write, FIFO read,
\* encode, header write or trailer write is performed; only the releases
\* follow, and processInput returns a nonzero code.
C7_NoRetry ==
    /\ [](pc = "return" /\ error # 0 => ret # 0)
    /\ [][error # 0 => (lastOps' = {} /\ pc' \in {"cleanup", "return"})]_vars

\* a run that failed after frames were encoded, and has returned
C7_Witness ==
    /\ pc = "return"
    /\ error # 0
    /\ Len(frames) >= 1
    /\ Len(released) = 7

\* C8: when the flush ends, before the trailer is written, the encoder holds
\* no undelivered packet.
C8_FlushDrains == pc = "writeOutputFileTrailer" => encoder.pending = 0

\* C9: a packet is written to the muxer only after the header write succeeded
\* and before the trailer write.
C9_Bracketed ==
    [][muxed' # muxed => (headerWritten /\ trailerWrites = 0 /\ trailerWrites' = 0)]_vars

\* packets were muxed and the trailer has been written
C9_Witness ==
    /\ muxed >= 2
    /\ headerWritten
    /\ trailerWrites = 1

\* a frame of fewer than frame_size samples was submitted only after finished
\* was set and is the last frame submitted; every other frame is a whole one
PartialFrameIsLast ==
    \A i \in 1..Len(frames) :
        /\ frames[i].nb_samples <= frame_size
        /\ frames[i].nb_samples < frame_size =>
              (frames[i].finished /\ i = Len(frames))

\* C10: a frame of fewer than frame_size samples is submitted only after
\* finished was set, at most once, and as the last frame; every other frame
\* has exactly frame_size samples, so an input whose decoded samples divide
\* into whole encoder frames produces no partial frame.
C10_PartialFrames ==
    /\ PartialFrameIsLast
    /\ (Succeeded /\ decodedSamples % frame_size = 0) =>
          \A i \in 1..Len(frames) : frames[i].nb_samples = frame_size

\* C11: when a step fails, the value processInput returns to its caller is the
\* error of the step that failed first.
C11_ReportsOriginatingError == (pc = "return" /\ error # 0) => ret = error

\* C12: every run of processInput stamps the first frame it submits with pts 0,
\* a run that follows an earlier run of the same process included.
C12_PtsPerRun == frames # <<>> => frames[1].pts = 0

\* the run is over (ABORTED) or on its way through the releases
Aborted == pc \in {"cleanup", "return"} /\ error # 0

\* C13: a run on an input whose stream count is zero or more than one fails in
\* openInputFile with the format error (or with the error of avformat_open_input
\* or avformat_find_stream_info when that call fails first), performs no decode,
\* no output open and no encode, and ends with the input format context
\* released.
C13_StreamCount ==
    /\ []((nb_streams # 1 /\ pc # "openInputFile") =>
            /\ Aborted
            /\ error \in {AVERROR_EXIT} \cup (IF faults THEN {AVERROR_LIB} ELSE {})
            /\ \A i \in 1..Len(acquired) : acquired[i] = "inputFormatContext"
            /\ released = acquired
            /\ ~inputFormatContext
            /\ decodedSamples = 0 /\ frames = <<>> /\ muxed = 0)
    /\ [][nb_streams # 1 => (lastOps' = {} /\ pc' # "openOutputFile")]_vars

\* a two-stream input was opened, refused and closed, and the run has returned
C13_Witness ==
    /\ nb_streams = 2
    /\ pc = "return"
    /\ error = AVERROR_EXIT
    /\ acquired = <<"inputFormatContext">>
    /\ released = <<"inputFormatContext">>

\* C14: a run whose output extension matches no known container fails in
\* openOutputFile, with the format error when no library call fails before the
\* lookup; no header is written, nothing is decoded or encoded, the run ends in
\* ABORTED with the input session released, and the run that failed with the
\* format error has released the output I/O handle it opened.
C14_UnknownContainer ==
    /\ []((~outputFormatKnown /\ inputCodecContext /\ pc # "openOutputFile") =>
            /\ Aborted
            /\ ~faults => error = AVERROR_EXIT
            /\ ~outputFormatContext /\ ~outputCodecContext
            /\ ~headerWritten /\ decodedSamples = 0 /\ frames = <<>> /\ muxed = 0
            /\ pc = "return" =>
                 /\ Count(released, "inputFormatContext") = 1
                 /\ Count(released, "inputCodecContext") = 1
                 /\ error = AVERROR_EXIT =>
                      /\ Count(acquired, "outputIOContext") = 1
                      /\ Count(released, "outputIOContext") = 1)
    /\ [][~outputFormatKnown => lastOps' = {}]_vars

\* the container lookup failed; the output I/O handle and the input session
\* were released and the run has returned
C14_Witness ==
    /\ ~outputFormatKnown
    /\ pc = "return"
    /\ error = AVERROR_EXIT
    /\ released = <<"outputIOContext", "outputFormatContext",
                    "inputCodecContext", "inputFormatContext">>

\* C15: the encoder context holds the input's sample rate, so whenever
\* initResampler is reached the two rates are equal and the assertion on them
\* never ends the process.
C15_RateEquality ==
    /\ pc # "abort"
    /\ outputCodecContext => out_sample_rate = sample_rate
    /\ pc = "initResampler" => out_sample_rate = sample_rate

\* initResampler returned success on a 48000 Hz input
C15_Witness ==
    /\ pc = "initFifo"
    /\ resampleContext
    /\ sample_rate = 48000
    /\ out_sample_rate = 48000

\* C16: when initResampler is entered with an input sample rate that differs
\* from the encoder's, it never returns success (it returns an error or the
\* assertion ends the process) and no frame is decoded, converted or encoded.
C16_RateMismatchFails ==
    /\ [](sample_rate # out_sample_rate =>
            /\ pc \in {"initResampler", "abort", "cleanup", "return"}
            /\ pc \in {"cleanup", "return"} => error # 0
            /\ ~fifo
            /\ decodedSamples = 0 /\ fifoWritten = <<>> /\ frames = <<>>)
    /\ [][sample_rate # out_sample_rate => lastOps' = {}]_vars

\* the assertion ended the process on a 44100 Hz input and a 48000 Hz encoder
C16_Witness ==
    /\ pc = "abort"
    /\ sample_rate = 44100
    /\ out_sample_rate = 48000
    /\ error = 0

\* C17: with two path arguments the process ends with status 0 whether the run
\* succeeded or failed; after a successful run that is after the trailer was
\* written and every resource released.
C17_ExitStatus ==
    (pc = "exited" /\ argc = 3) =>
        /\ exitStatus = 0
        /\ run = 1
        /\ ret = 0 => (error = 0 /\ trailerWrites = 1 /\ AllReleased)

\* a failed run after which the process ended with status 0
C17_Witness ==
    /\ pc = "exited"
    /\ argc = 3
    /\ error # 0
    /\ ret # 0
    /\ exitStatus = 0

\* C18: when argc is not 3 the process ends with a nonzero status before any
\* pipeline work: no Transcoder is constructed, no file is opened.
C18_ArgumentCheck ==
    /\ [](argc # 3 =>
            /\ pc \in {"main", "exited"}
            /\ run = 0
            /\ acquired = <<>>
            /\ pc = "exited" => exitStatus = 1)
    /\ [][argc # 3 => pc' = "exited"]_vars

\* the process ended with status 1 on three positional arguments
C18_Witness ==
    /\ argc = 4
    /\ pc = "exited"
    /\ exitStatus = 1
    /\ run = 0

\* C19: every FIFO read the driver issues asks for no more samples than the
\* FIFO holds and gets them all, so no short read occurs and the frame read is
\* encoded; every FIFO write stores all the samples of the decoded frame or the
\* run ends in the releases.
C19_FifoContract ==
    /\ [][("fifoRead" \in lastOps') =>
            /\ LoadFrameSize(Len(fifoSamples), frame_size) <= Len(fifoSamples)
            /\ Len(fifoRead') - Len(fifoRead) = LoadFrameSize(Len(fifoSamples), frame_size)
            /\ "encode" \in lastOps']_vars
    /\ [][("fifoWrite" \in lastOps') =>
            \/ Len(fifoWritten') - Len(fifoWritten) = decodedSamples' - decodedSamples
            \/ (pc' = "cleanup" /\ error' = AVERROR_EXIT)]_vars

\* a write stored fewer samples than asked for and the run went to the
\* releases, after an earlier frame had been read from the FIFO
C19_Witness ==
    /\ "fifoWrite" \in lastOps
    /\ Len(fifoWritten) < decodedSamples
    /\ Len(fifoRead) > 0
    /\ pc = "cleanup"

\* C20: a decodeAudioFrame call that returns without error reports no frame
\* yet, a frame, or the end of the stream without a frame; it never reports
\* finished together with a frame.
C20_ThreeWayDecode ==
    ("decode" \in lastOps /\ error = 0) => ~(finished /\ dataPresent)

\* C21: finished is reported to the driver only when the decoder holds no
\* delayed frame any more, and every frame the decoder returned has been
\* converted and written to the FIFO by then.
C21_DecoderDrained ==
    (finished /\ error = 0) =>
        /\ decoder.buffered = 0
        /\ Len(fifoWritten) = decodedSamples

\* C22: the first encodeAudioFrame(nullptr) of a run is made only with finished
\* set and the FIFO empty, and once the flush has started no frame is
\* submitted to the encoder and no decode or drain step follows.
C22_FlushEntry ==
    /\ [](pc = "encodeAudioFrame" => (finished /\ fifoSamples = <<>>))
    /\ [][pc = "encodeAudioFrame" =>
            /\ frames' = frames
            /\ pc' \in {"encodeAudioFrame", "writeOutputFileTrailer", "cleanup"}]_vars
    /\ [][encoder.draining => (frames' = frames /\ "fifoRead" \notin lastOps')]_vars

\* the flush is about to start after a last, partial frame was submitted
C22_Witness ==
    /\ pc = "encodeAudioFrame"
    /\ ~encoder.draining
    /\ frames # <<>>
    /\ frames[Len(frames)].nb_samples < frame_size
    /\ fifoRead = fifoWritten

\* C23: a decode step is taken only while the FIFO holds fewer than frame_size
\* samples and finished has not been reported; once it is reported the decode
\* loop ends at once, whatever the FIFO holds, and no decode step follows.
C23_FillExit ==
    /\ [](pc = "readDecodeConvertAndStore" =>
            (~finished /\ Len(fifoSamples) < frame_size))
    /\ [][("decode" \in lastOps') =>
            (pc = "readDecodeConvertAndStore" /\ ~finished
             /\ Len(fifoSamples) < frame_size)]_vars
    /\ [][finished => (finished' /\ "decode" \notin lastOps'
                       /\ pc' # "readDecodeConvertAndStore")]_vars

\* finished was reported with less than a whole frame in the FIFO, and the
\* driver went on to encode what is there
C23_Witness ==
    /\ finished
    /\ "decode" \in lastOps
    /\ Len(fifoSamples) > 0
    /\ Len(fifoSamples) < frame_size
    /\ pc = "loadEncodeAndWrite"

\* an encode call that received a packet reports dataPresent and writes the
\* packet to the muxer in that call (or fails on the write); a call that
\* returns success without a packet writes nothing
EncodeMuxesAtOnce ==
    [][("encode" \in lastOps') =>
        /\ ("packet" \in lastOps') =>
              (dataWritten' /\ (muxed' = muxed + 1 \/ error' # 0))
        /\ ("packet" \notin lastOps') => muxed' = muxed]_vars

\* C24: in every encode call a packet received from the encoder is written to
\* the muxer within the call and the call reports dataPresent = true; a call
\* in which the encoder wants more input or has no more output returns success
\* with dataPresent = false and writes nothing.
C24_EncodeTree ==
    [][("encode" \in lastOps') =>
        /\ ("packet" \in lastOps') =>
              (dataWritten' /\ (muxed' = muxed + 1 \/ error' # 0))
        /\ ("packet" \notin lastOps' /\ error' = 0) =>
              (~dataWritten' /\ muxed' = muxed)]_vars

\* C25: the pointer array and the sample buffer of a converted block are both
\* released by the end of the fill iteration that allocated them.
C25_ConvertedBlockReleased ==
    /\ Count(allocated, "convertedSamples") = Count(freed, "convertedSamples")
    /\ Count(allocated, "convertedPointers") = Count(freed, "convertedPointers")

\* C26: when the allocation of the sample buffer fails, the pointer array is
\* freed exactly once by initConvertedSamples and the cleanup label together.
C26_PointerArrayFreedOnce ==
    (Count(allocated, "convertedPointers") = 1
     /\ Count(allocated, "convertedSamples") = 0) =>
        Count(freed, "convertedPointers") = 1

\* C27: when openOutputFile has failed after it opened the output I/O handle,
\* the handle is closed by the time it returns and the caller's output format
\* context and encoder context are null.
C27_OutputHandleClosed ==
    (pc \in {"cleanup", "return"} /\ inputCodecContext /\ ~outputCodecContext) =>
        /\ ~outputFormatContext
        /\ Count(released, "outputIOContext") = Count(acquired, "outputIOContext")

\* C28: av_write_trailer is called at most once in a run, only after the header
\* was written and the loop and the flush ended without error; a run that
\* failed before that ends with no trailer write and with the output, if it
\* was opened, closed.
C28_TrailerDiscipline ==
    /\ [](/\ trailerWrites <= 1
          /\ trailerWrites = 1 =>
                (headerWritten /\ finished /\ fifoSamples = <<>> /\ encoder.draining))
    /\ [][trailerWrites' # trailerWrites =>
            (error = 0 /\ headerWritten /\ pc = "writeOutputFileTrailer")]_vars
    /\ [][error # 0 => trailerWrites' = trailerWrites]_vars
    /\ []((pc = "return" /\ headerWritten) =>
             (Count(released, "outputIOContext") = 1
              /\ Count(released, "outputFormatContext") = 1))

\* a run that failed after the header was written and returned with the
\* output closed and no trailer
C28_Witness ==
    /\ pc = "return"
    /\ headerWritten
    /\ error # 0
    /\ trailerWrites = 0
    /\ Count(released, "outputIOContext") = 1

\* C29: the FIFO always holds fewer than frame_size + MaxFrameSamples
\* samples, fewer than frame_size whenever a decode step is about to run, and
\* every frame submitted to the encoder has between 1 and frame_size samples.
C29_BoundedBuffering ==
    /\ Len(fifoSamples) < frame_size + MaxFrameSamples
    /\ pc = "readDecodeConvertAndStore" => Len(fifoSamples) < frame_size
    /\ \A i \in 1..Len(frames) :
          frames[i].nb_samples >= 1 /\ frames[i].nb_samples <= frame_size

\* the FIFO at its highest level: one sample short of a frame plus a decoded
\* frame of the largest size
C29_Witness ==
    /\ frame_size >= 2
    /\ Len(fifoSamples) = frame_size + MaxFrameSamples - 1
    /\ pc = "loadEncodeAndWrite"

\* the packets and frames a step allocates
TransientKinds == {"inputPacket", "inputFrame", "outputFrame", "outputPacket"}

\* C30: every input packet, decoded frame, output frame and output packet a
\* step allocated has been freed exactly once when the step has returned, on
\* the success path and on every error path.
C30_TransientsFreedOnce ==
    pc # "crash" =>
        \A k \in TransientKinds : Count(freed, k) = Count(allocated, k)

\* an encode call failed after the packet and the frame were allocated, and
\* both were freed
C30_Witness ==
    /\ "encode" \in lastOps
    /\ error # 0
    /\ allocated = <<"outputFrame", "outputPacket">>
    /\ freed = <<"outputPacket", "outputFrame">>
    /\ pc = "cleanup"

====
